---- MODULE Spec2Model ----
(***************************************************************************)
(* Model of the OBIVox NLM decision layer (src/obivox/src/core/nlm_core.c, *)
(* src/obivox/include/obivox/nlm_framwork.h).                              *)
(*                                                                         *)
(* Number representation.  Every float of the program is held as an        *)
(* integer number of thousandths ("milli"): 0.954f is 954, 0.3f is 300,    *)
(* 24.0f is the integer factor 24, 12.0f is 12000 milli.  All literals of  *)
(* the modelled code are multiples of 0.001, and on the whole grid         *)
(* 0.000 .. 1.000 the float32 comparisons of the code (d*24.0f-12.0f       *)
(* against -3.0f and 3.0f, d > 0.3f, c < 0.85f) give the same answers as   *)
(* the integer comparisons below.                                          *)
(***************************************************************************)
EXTENDS Integers, Sequences, FiniteSets, TLC

\* ------------------------------------------------------------------------
\* Bounds of the model (not program constants)
\* ------------------------------------------------------------------------

\* the streak counter ai_cycles saturates here
MaxCycles == 5

\* number of bins of pitch_contour / energy_envelope carried by the model
NumBins == 4

\* number of worker threads that run conversion cycles concurrently
NumThreads == 2

\* ------------------------------------------------------------------------
\* Program constants
\* ------------------------------------------------------------------------

TREE_MODE_AVL == "TREE_MODE_AVL"
TREE_MODE_RB == "TREE_MODE_RB"
TREE_MODE_HYBRID == "TREE_MODE_HYBRID"
TreeMode == {TREE_MODE_AVL, TREE_MODE_RB, TREE_MODE_HYBRID}

INPUT_AUDIO == "INPUT_AUDIO"
INPUT_TEXT == "INPUT_TEXT"
InputType == {INPUT_AUDIO, INPUT_TEXT}

\* 0.954f
DefaultCoherenceThreshold == 954
\* 0.85f written to coherence_threshold in the AI stress branch
StressCoherenceThreshold == 850
\* *confidence = 0.95f of the text-to-audio branch
TtsConfidence == 950
\* uint8_t recovery_attempts
Uint8Modulus == 256

\* ------------------------------------------------------------------------
\* Inputs the callers may pass (milli)
\* ------------------------------------------------------------------------

DriftInputs == {0, 300, 301, 374, 375, 625, 626, 1000}
ConfidenceInputs == {840, 850, 860}

\* ------------------------------------------------------------------------
\* State
\* ------------------------------------------------------------------------

VARIABLES
    current_position,         \* NLMCoordinate of the system
    accessibility,            \* PhoneticAccessibility of the system
    current_tree_mode,
    drift_magnitude,
    coherence_threshold,
    fault_tolerance_enabled,
    recovery_attempts,
    last_confidence,          \* codec_engine.last_confidence
    feedback,                 \* the caller's HumanFeedback record
    lastOp,                   \* the API function called last
    ret,                      \* return value of the last call that returned
    drift_detected,           \* argument of the last obivox_handle_drift
    should_cascade,           \* out-parameter of the last obivox_handle_drift
    arg_confidence,           \* confidence argument of the call just made
                              \* to obivox_request_human_validation, else 0
    output,                   \* *output as written by the call just made
                              \* to obivox_bidirectional_convert, else NULL
    crashed,                  \* the process died in an out-of-bounds read
    ai_cycles,                \* consecutive AI-stress cycles since attempts = 0
    prev_position,            \* current_position before the call just made to
                              \* obivox_incorporate_feedback, else NoPosition
    threads,                  \* position and locals of each worker thread
                              \* inside obivox_bidirectional_convert
    dsp,                      \* arguments and results of the call just made to
                              \* the detector or the normalizer
    serial_attempts           \* recovery_attempts as the worker threads' cycles
                              \* leave it when run one after another

vars == <<current_position, accessibility, current_tree_mode, drift_magnitude,
          coherence_threshold, fault_tolerance_enabled, recovery_attempts,
          last_confidence, feedback, lastOp, ret, drift_detected,
          should_cascade, arg_confidence, output, crashed, ai_cycles,
          prev_position, threads, dsp, serial_attempts>>

\* the state of concurrent workers and of the signal-processing calls, which
\* the serialized API calls leave alone
aux == <<threads, dsp, serial_attempts>>

NoPosition == [x_axis |-> 0, y_axis |-> 0, z_axis |-> 0, confidence |-> 0]

Threads == 1..NumThreads

\* no worker is inside obivox_bidirectional_convert
IdleThreads == [t \in Threads |-> [pc |-> "idle", sc |-> FALSE, tmp |-> 0]]

\* no detector or normalizer call has been made
DspIdle == [op |-> "none"]

NoFeedback == [requires_confirmation |-> FALSE,
               confidence_threshold |-> 0,
               suggested_correction |-> "NULL",
               original_interpretation |-> "NULL"]

Min(a, b) == IF a < b THEN a ELSE b

\* ------------------------------------------------------------------------
\* obivox_nlm_init
\* ------------------------------------------------------------------------

obivox_nlm_init_callocOnly ==
    /\ current_position = NoPosition
    /\ accessibility = [lisp_mitigation |-> FALSE,
                        stutter_detection |-> FALSE,
                        accent_normalization |-> FALSE,
                        variation_tolerance |-> 0,
                        phenomenological_integrity |-> 0,
                        experiential_authenticity |-> 0]
    /\ current_tree_mode = TREE_MODE_AVL
    /\ drift_magnitude = 0
    /\ coherence_threshold = 0
    /\ fault_tolerance_enabled = FALSE
    /\ recovery_attempts = 0
    /\ last_confidence = 0

\* The system as obivox_nlm_init leaves it: calloc zeroes every field
\* (drift_magnitude among them), then the defaults are stored.
obivox_nlm_init ==
    /\ current_position = [x_axis |-> 0, y_axis |-> 0, z_axis |-> 500,
                           confidence |-> 954]
    /\ accessibility = [lisp_mitigation |-> TRUE,
                        stutter_detection |-> TRUE,
                        accent_normalization |-> FALSE,
                        variation_tolerance |-> 700,
                        phenomenological_integrity |-> 950,
                        experiential_authenticity |-> 950]
    /\ current_tree_mode = TREE_MODE_HYBRID
    /\ drift_magnitude = 0
    /\ coherence_threshold = DefaultCoherenceThreshold
    /\ fault_tolerance_enabled = TRUE
    /\ recovery_attempts = 0
    /\ last_confidence = 0

Init ==
    /\ obivox_nlm_init
    /\ feedback = NoFeedback
    /\ lastOp = "obivox_nlm_init"
    /\ ret = 0
    /\ drift_detected = 0
    /\ should_cascade = FALSE
    /\ arg_confidence = 0
    /\ output = "NULL"
    /\ crashed = FALSE
    /\ ai_cycles = 0
    /\ prev_position = NoPosition
    /\ threads = IdleThreads
    /\ dsp = DspIdle
    /\ serial_attempts = 0

\* ------------------------------------------------------------------------
\* obivox_handle_drift
\* ------------------------------------------------------------------------

\* float failure_magnitude = drift_detected * 24.0f - 12.0f;   (milli)
failure_magnitude(d) == d * 24 - 12000

InAIStress_le(fm) == fm <= -3000

\* if (failure_magnitude < -3.0f)
InAIStress(fm) == fm < -3000

InHumanStress_ge(fm) == fm >= 3000

\* else if (failure_magnitude > 3.0f)
InHumanStress(fm) == fm > 3000

DriftUpdate_keepThreshold(mode, thr, d) ==
    LET fm == failure_magnitude(d) IN
    IF InAIStress(fm)
    THEN [current_tree_mode |-> TREE_MODE_RB,
          coherence_threshold |-> StressCoherenceThreshold,
          drift_magnitude |-> d, should_cascade |-> TRUE]
    ELSE IF InHumanStress(fm)
    THEN [current_tree_mode |-> TREE_MODE_AVL,
          coherence_threshold |-> thr,
          drift_magnitude |-> d, should_cascade |-> FALSE]
    ELSE [current_tree_mode |-> TREE_MODE_HYBRID,
          coherence_threshold |-> thr,
          drift_magnitude |-> d, should_cascade |-> FALSE]

DriftUpdate_humanResets(mode, thr, d) ==
    LET fm == failure_magnitude(d) IN
    IF InAIStress(fm)
    THEN [current_tree_mode |-> TREE_MODE_RB,
          coherence_threshold |-> StressCoherenceThreshold,
          drift_magnitude |-> d, should_cascade |-> TRUE]
    ELSE IF InHumanStress(fm)
    THEN [current_tree_mode |-> TREE_MODE_AVL,
          coherence_threshold |-> DefaultCoherenceThreshold,
          drift_magnitude |-> d, should_cascade |-> FALSE]
    ELSE [current_tree_mode |-> TREE_MODE_HYBRID,
          coherence_threshold |-> DefaultCoherenceThreshold,
          drift_magnitude |-> d, should_cascade |-> FALSE]

\* The body of obivox_handle_drift after its NULL checks: the new tree mode,
\* coherence threshold, stored drift and *should_cascade.  The HumanFeedback
\* built in the human stress branch is a local that is dropped at return.
DriftUpdate(mode, thr, d) ==
    LET fm == failure_magnitude(d) IN
    IF InAIStress(fm)
    THEN [current_tree_mode |-> TREE_MODE_RB,
          coherence_threshold |-> StressCoherenceThreshold,
          drift_magnitude |-> d, should_cascade |-> TRUE]
    ELSE IF InHumanStress(fm)
    THEN [current_tree_mode |-> TREE_MODE_AVL,
          coherence_threshold |-> thr,
          drift_magnitude |-> d, should_cascade |-> FALSE]
    ELSE [current_tree_mode |-> TREE_MODE_HYBRID,
          coherence_threshold |-> DefaultCoherenceThreshold,
          drift_magnitude |-> d, should_cascade |-> FALSE]

obivox_handle_drift ==
    /\ ~crashed
    /\ \E d \in DriftInputs, args_ok \in BOOLEAN :
         /\ lastOp' = "obivox_handle_drift"
         /\ IF ~args_ok
            THEN /\ ret' = -1
                 /\ UNCHANGED <<current_tree_mode, coherence_threshold,
                                drift_magnitude, should_cascade,
                                drift_detected>>
            ELSE LET r == DriftUpdate(current_tree_mode,
                                      coherence_threshold, d) IN
                 /\ ret' = 0
                 /\ drift_detected' = d
                 /\ current_tree_mode' = r.current_tree_mode
                 /\ coherence_threshold' = r.coherence_threshold
                 /\ drift_magnitude' = r.drift_magnitude
                 /\ should_cascade' = r.should_cascade
    /\ ai_cycles' = 0
    /\ arg_confidence' = 0
    /\ output' = "NULL"
    /\ UNCHANGED <<current_position, accessibility, fault_tolerance_enabled,
                   recovery_attempts, last_confidence, feedback, crashed>>
    /\ prev_position' = NoPosition
    /\ UNCHANGED aux

\* ------------------------------------------------------------------------
\* obivox_map_to_nlm_space
\* ------------------------------------------------------------------------

\* round(1000 * tanh(k / 10)) for k = 0 .. 40
TanhTable == <<0, 100, 197, 291, 380, 462, 537, 604, 664, 716, 762, 800, 834,
               862, 885, 905, 922, 935, 947, 956, 964, 970, 976, 980, 984,
               987, 989, 991, 993, 994, 995, 996, 997, 997, 998, 998, 999,
               999, 999, 999, 999>>

\* tanhf on milli values: odd, 0 at 0, read from the table in steps of 0.1,
\* and 1.0f once the float result saturates (arguments above 9.1)
tanhf(v) ==
    LET a == IF v < 0 THEN 0 - v ELSE v
        t == IF a >= 9100 THEN 1000
             ELSE IF a >= 4000 THEN 999
             ELSE TanhTable[(a \div 100) + 1]
    IN IF v < 0 THEN 0 - t ELSE t

RECURSIVE SumSquaredDiffs_aboutZero(_, _)
SumSquaredDiffs_aboutZero(contour, i) ==
    IF i > Len(contour) THEN 0
    ELSE contour[i] * contour[i] + SumSquaredDiffs_aboutZero(contour, i + 1)

RECURSIVE SumSquaredDiffs(_, _)
\* for (i = 1; i < 256; i++) pitch_variance += diff * diff;  (micro units)
SumSquaredDiffs(contour, i) ==
    IF i > Len(contour) THEN 0
    ELSE (contour[i] - contour[i-1]) * (contour[i] - contour[i-1])
         + SumSquaredDiffs(contour, i + 1)

RECURSIVE SumBins(_, _)
\* for (i = 0; i < 256; i++) energy_mean += energy_envelope[i];
SumBins(envelope, i) ==
    IF i > Len(envelope) THEN 0
    ELSE envelope[i] + SumBins(envelope, i + 1)

\* the AudioFeatures fields read by the mapper, as left by
\* "AudioFeatures features = {0}" in obivox_bidirectional_convert
ZeroFeatures == [pitch_contour |-> [i \in 1..NumBins |-> 0],
                 energy_envelope |-> [i \in 1..NumBins |-> 0],
                 variation_score |-> 0]

\* The coordinate written by obivox_map_to_nlm_space.  The bin arrays hold
\* NumBins bins and the sums are divided by the bin count, as the code
\* divides its 256 bins by 256.0f.
obivox_map_to_nlm_space(features) ==
    LET pitch_variance ==
            (SumSquaredDiffs(features.pitch_contour, 2) \div 1000) \div NumBins
        energy_mean == SumBins(features.energy_envelope, 1) \div NumBins
    IN [x_axis |-> 1000 - 2 * tanhf(pitch_variance),
        y_axis |-> tanhf(energy_mean * 2),
        z_axis |-> features.variation_score,
        confidence |-> (954 * (1000 - (features.variation_score \div 10)))
                       \div 1000]

\* ------------------------------------------------------------------------
\* obivox_detect_speech_variations: its writes to the profile flags
\* ------------------------------------------------------------------------

\* if (zero_crossing_rate > 0.4f) lisp_mitigation = true;
\* if (repetition_score > 3.0f) stutter_detection = true;
DetectFlags(acc, lisp_found, stutter_found) ==
    [acc EXCEPT !.lisp_mitigation = @ \/ lisp_found,
                !.stutter_detection = @ \/ stutter_found]

\* ------------------------------------------------------------------------
\* obivox_bidirectional_convert
\* ------------------------------------------------------------------------

DriftGate_350(d) == d > 350

DriftGate_ge(d) == d >= 300

\* if (system->drift_magnitude > 0.3f)
DriftGate(d) == d > 300

CascadeGuard_noCap(sc, attempts) == sc

\* if (should_cascade && system->recovery_attempts < 3)
CascadeGuard(sc, attempts) == sc /\ attempts < 3

NextAttempts_wrap3(attempts) == (attempts + 1) % 3

\* system->recovery_attempts++;   (uint8_t)
NextAttempts(attempts) == (attempts + 1) % Uint8Modulus

\* a conversion cycle whose stored drift passes the gate and is evaluated
\* into the AI stress branch
AIStressCycle(d) == DriftGate(d) /\ InAIStress(failure_magnitude(d))

\* Lines 218-229: the drift check at the head of the conversion cycle.
DriftCheck ==
    IF DriftGate(drift_magnitude)
    THEN LET r == DriftUpdate(current_tree_mode, coherence_threshold,
                              drift_magnitude) IN
         /\ drift_detected' = drift_magnitude
         /\ current_tree_mode' = r.current_tree_mode
         /\ coherence_threshold' = r.coherence_threshold
         /\ drift_magnitude' = r.drift_magnitude
         /\ should_cascade' = r.should_cascade
         /\ IF CascadeGuard(r.should_cascade, recovery_attempts)
            THEN /\ recovery_attempts' = NextAttempts(recovery_attempts)
                 /\ fault_tolerance_enabled' = TRUE
            ELSE UNCHANGED <<recovery_attempts, fault_tolerance_enabled>>
    ELSE UNCHANGED <<drift_detected, current_tree_mode, coherence_threshold,
                     drift_magnitude, should_cascade, recovery_attempts,
                     fault_tolerance_enabled>>

\* Lines 231-309: the conversion proper, after the drift check.
ConvertBody(input_type, dies, stutter_found) ==
    IF input_type = INPUT_AUDIO
    THEN IF dies
         THEN /\ crashed' = TRUE
              /\ output' = "NULL"
              /\ UNCHANGED <<current_position, accessibility,
                             last_confidence, ret>>
         ELSE /\ accessibility' =
                   DetectFlags(accessibility, FALSE, stutter_found)
              /\ current_position' = obivox_map_to_nlm_space(ZeroFeatures)
              /\ output' = "transcription"
              /\ last_confidence' = current_position'.confidence
              /\ ret' = 0
              /\ UNCHANGED crashed
    ELSE /\ stutter_found = FALSE
         /\ dies = FALSE
         /\ output' = "audio_output"
         /\ last_confidence' = TtsConfidence
         /\ ret' = 0
         /\ UNCHANGED <<current_position, accessibility, crashed>>

\* The audio branch calls obivox_detect_speech_variations with
\* features.num_samples = 0 (features is zero-initialised and only raw_audio
\* and sample_rate are set).  The zero-crossing rate is 0/0 = NaN, so the
\* lisp test, the accent test and the "variation_score > 0.5f" test are
\* false and the normalizer is not called.  The stutter loop runs from 1024
\* up to 0u - 1024 = 4294966272 and reads the caller's buffer far beyond its
\* end: the process either dies there, or the reads return arbitrary values
\* and the stutter flag may be set.  obivox_select_optimal_codec and
\* obivox_generate_pronunciation_guide are declared in the header only; the
\* suggested mode and the guide are locals that are dropped.
obivox_bidirectional_convert ==
    /\ ~crashed
    /\ lastOp' = "obivox_bidirectional_convert"
    /\ \E input_type \in InputType, args_ok \in BOOLEAN,
          dies \in BOOLEAN, stutter_found \in BOOLEAN :
         IF ~args_ok
         THEN /\ ret' = -1
              /\ ai_cycles' = 0
              /\ UNCHANGED <<current_position, accessibility,
                             current_tree_mode, drift_magnitude,
                             coherence_threshold, fault_tolerance_enabled,
                             recovery_attempts, last_confidence,
                             drift_detected, should_cascade, crashed>>
              /\ output' = "NULL"
         ELSE /\ DriftCheck
              /\ ai_cycles' =
                    IF ~AIStressCycle(drift_magnitude) THEN 0
                    ELSE IF ai_cycles > 0 THEN Min(ai_cycles + 1, MaxCycles)
                    ELSE IF recovery_attempts = 0 THEN 1 ELSE 0
              /\ ConvertBody(input_type, dies, stutter_found)
    /\ arg_confidence' = 0
    /\ UNCHANGED feedback
    /\ prev_position' = NoPosition
    /\ UNCHANGED aux

\* ------------------------------------------------------------------------
\* Human-in-the-loop
\* ------------------------------------------------------------------------

RequiresConfirmation_le(confidence) == confidence <= 850

\* feedback->requires_confirmation = (confidence < 0.85f);
RequiresConfirmation(confidence) == confidence < 850

\* suggested_correction is a fresh zero-filled buffer (calloc), so the
\* pointer is not NULL although it holds no text yet
obivox_request_human_validation ==
    /\ ~crashed
    /\ lastOp' = "obivox_request_human_validation"
    /\ \E confidence \in ConfidenceInputs, args_ok \in BOOLEAN :
         /\ arg_confidence' = confidence
         /\ IF ~args_ok
            THEN /\ ret' = -1
                 /\ UNCHANGED feedback
            ELSE /\ feedback' =
                       [requires_confirmation |->
                            RequiresConfirmation(confidence),
                        confidence_threshold |-> 954,
                        suggested_correction |-> "empty",
                        original_interpretation |-> "transcription"]
                 /\ ret' = IF feedback'.requires_confirmation THEN 1 ELSE 0
    /\ ai_cycles' = 0
    /\ output' = "NULL"
    /\ UNCHANGED <<current_position, accessibility, current_tree_mode,
                   drift_magnitude, coherence_threshold,
                   fault_tolerance_enabled, recovery_attempts,
                   last_confidence, drift_detected, should_cascade, crashed>>
    /\ prev_position' = NoPosition
    /\ UNCHANGED aux

\* The human validation collaborator answers a pending request by writing
\* corrected text into the suggested_correction buffer of the record.
HumanSuppliesCorrection ==
    /\ ~crashed
    /\ feedback.suggested_correction = "empty"
    /\ feedback' = [feedback EXCEPT !.suggested_correction = "text"]
    /\ lastOp' = "HumanSuppliesCorrection"
    /\ ai_cycles' = 0
    /\ arg_confidence' = 0
    /\ output' = "NULL"
    /\ UNCHANGED <<current_position, accessibility, current_tree_mode,
                   drift_magnitude, coherence_threshold,
                   fault_tolerance_enabled, recovery_attempts,
                   last_confidence, ret, drift_detected, should_cascade,
                   crashed>>
    /\ prev_position' = NoPosition
    /\ UNCHANGED aux

Nudge_noClamp(pos, fb) ==
    IF fb.suggested_correction # "NULL"
    THEN [pos EXCEPT !.y_axis = Min(@ + 100, 1000),
                     !.z_axis = @ + 50]
    ELSE pos

Nudge_always(pos, fb) ==
    [pos EXCEPT !.y_axis = Min(@ + 100, 1000),
                !.z_axis = Min(@ + 50, 1000)]

\* if (feedback->suggested_correction) { y_axis += 0.1f; ... z_axis += 0.05f; ... }
Nudge(pos, fb) ==
    IF fb.suggested_correction # "NULL"
    THEN [pos EXCEPT !.y_axis = Min(@ + 100, 1000),
                     !.z_axis = Min(@ + 50, 1000)]
    ELSE pos

\* the caller passes its HumanFeedback record (as built by
\* obivox_request_human_validation and possibly answered, or as the caller
\* zero-initialised it), or NULL
obivox_incorporate_feedback ==
    /\ ~crashed
    /\ lastOp' = "obivox_incorporate_feedback"
    /\ \E args_ok \in BOOLEAN :
         IF ~args_ok
         THEN /\ ret' = -1
              /\ UNCHANGED <<current_position, drift_magnitude,
                             recovery_attempts>>
         ELSE /\ current_position' = Nudge(current_position, feedback)
              /\ drift_magnitude' = 0
              /\ recovery_attempts' = 0
              /\ ret' = 0
    /\ ai_cycles' = 0
    /\ arg_confidence' = 0
    /\ output' = "NULL"
    /\ UNCHANGED <<accessibility, current_tree_mode, coherence_threshold,
                   fault_tolerance_enabled, last_confidence, feedback,
                   drift_detected, should_cascade, crashed>>
    /\ prev_position' = current_position
    /\ UNCHANGED aux

\* ------------------------------------------------------------------------
\* Specification
\* ------------------------------------------------------------------------

Next ==
    \/ obivox_handle_drift
    \/ obivox_bidirectional_convert
    \/ obivox_request_human_validation
    \/ HumanSuppliesCorrection
    \/ obivox_incorporate_feedback

Spec == Init /\ [][Next]_vars

\* ------------------------------------------------------------------------
\* Coordinate specification: the mapper called on the system's coordinate,
\* and feedback incorporation, from systems earlier calls have left
\* ------------------------------------------------------------------------

\* most stutter windows the detector is taken to count in one buffer
MaxRepetitions == 6

\* *variation_score = zero_crossing_rate * 0.3f + repetition_score * 0.1f
\*                    + variation_tolerance * 0.6f;
\* repetition_score is a count of windows, the other two are milli values
VariationScore(zero_crossing_rate, repetition_score, variation_tolerance) ==
    (zero_crossing_rate * 300) \div 1000
    + repetition_score * 100
    + (variation_tolerance * 600) \div 1000

\* variation scores the detector can hand to the mapper: a zero-crossing
\* rate of 0.5 and 0 .. MaxRepetitions repeated windows
DetectorScores ==
    {VariationScore(500, r, accessibility.variation_tolerance) :
        r \in 0..MaxRepetitions}

\* bin arrays the feature extraction can hand to the mapper: a constant
\* one and one that alternates between 0 and 2.0
BinArrays ==
    {[i \in 1..NumBins |-> 440],
     [i \in 1..NumBins |-> IF i % 2 = 0 THEN 2000 ELSE 0]}

\* obivox_map_to_nlm_space(&features, &system->current_position), as line
\* 260 calls it, with features a caller has filled in
MapCoordinate ==
    /\ ~crashed
    /\ lastOp' = "obivox_map_to_nlm_space"
    /\ \E pitch \in BinArrays, energy \in BinArrays,
          score \in DetectorScores, args_ok \in BOOLEAN :
         IF ~args_ok
         THEN /\ ret' = -1
              /\ UNCHANGED current_position
         ELSE /\ current_position' =
                   obivox_map_to_nlm_space([pitch_contour |-> pitch,
                                            energy_envelope |-> energy,
                                            variation_score |-> score])
              /\ ret' = 0
    /\ ai_cycles' = 0
    /\ arg_confidence' = 0
    /\ output' = "NULL"
    /\ prev_position' = NoPosition
    /\ UNCHANGED <<accessibility, current_tree_mode, drift_magnitude,
                   coherence_threshold, fault_tolerance_enabled,
                   recovery_attempts, last_confidence, feedback,
                   drift_detected, should_cascade, crashed>>
    /\ UNCHANGED aux

\* coordinates inside the documented ranges that an earlier mapping has
\* stored in the system
CoordInputs ==
    {[x_axis |-> x, y_axis |-> y, z_axis |-> z, confidence |-> 954] :
        x \in {-1000, 1000}, y \in {0, 900}, z \in {500, 990}}

\* drift fields of systems that Spec reaches: fresh, at the attempt cap in
\* AI stress, and in human stress
DriftStates ==
    {[drift_magnitude |-> 0, current_tree_mode |-> TREE_MODE_HYBRID,
      coherence_threshold |-> 954, recovery_attempts |-> 0,
      should_cascade |-> FALSE],
     [drift_magnitude |-> 301, current_tree_mode |-> TREE_MODE_RB,
      coherence_threshold |-> 850, recovery_attempts |-> 3,
      should_cascade |-> TRUE],
     [drift_magnitude |-> 626, current_tree_mode |-> TREE_MODE_AVL,
      coherence_threshold |-> 954, recovery_attempts |-> 0,
      should_cascade |-> FALSE]}

InitCoord ==
    /\ current_position \in CoordInputs
    /\ accessibility = [lisp_mitigation |-> TRUE,
                        stutter_detection |-> TRUE,
                        accent_normalization |-> FALSE,
                        variation_tolerance |-> 700,
                        phenomenological_integrity |-> 950,
                        experiential_authenticity |-> 950]
    /\ \E ds \in DriftStates :
         /\ drift_magnitude = ds.drift_magnitude
         /\ drift_detected = ds.drift_magnitude
         /\ current_tree_mode = ds.current_tree_mode
         /\ coherence_threshold = ds.coherence_threshold
         /\ recovery_attempts = ds.recovery_attempts
         /\ should_cascade = ds.should_cascade
    /\ fault_tolerance_enabled = TRUE
    /\ last_confidence = 954
    /\ feedback = NoFeedback
    /\ lastOp = "obivox_handle_drift"
    /\ ret = 0
    /\ arg_confidence = 0
    /\ output = "NULL"
    /\ crashed = FALSE
    /\ ai_cycles = 0
    /\ prev_position = NoPosition
    /\ threads = IdleThreads
    /\ dsp = DspIdle
    /\ serial_attempts = 0

NextCoord ==
    \/ MapCoordinate
    \/ obivox_request_human_validation
    \/ HumanSuppliesCorrection
    \/ obivox_incorporate_feedback

SpecCoord == InitCoord /\ [][NextCoord]_vars

\* ------------------------------------------------------------------------
\* Signal-processing specification: the normalizer and the detector applied
\* to caller buffers.  Buffers are sequences of milli samples; sample i of
\* the C array is element i + 1 of the sequence.  The windows are carried
\* at a reduced size: smooth_window stands for the 512 of the code and
\* window_size for its 1024; the index arithmetic stays unsigned and wraps.
\* ------------------------------------------------------------------------

\* const int smooth_window = 512;  (reduced)
smooth_window == 4

\* const int window_size = 1024;  (reduced)
window_size == 4

\* longest buffer the callers pass
MaxSamples == 16

\* uint32_t num_samples, uint32_t i: the unsigned index arithmetic wraps.
\* The modulus is carried reduced like the windows (2^16 for the 2^32 of
\* the code, whose values the model checker's integers cannot hold); it
\* stays a power of two far above every buffer length.
IndexModulus == 65536

At(a, i) == a[i + 1]

\* sample buffers of every length up to MaxSamples: constant, alternating
\* in sign, rising, and repeating with the period of the detector window
AudioInputs ==
    UNION {{[i \in 1..n |-> 500],
            [i \in 1..n |-> IF i % 2 = 0 THEN 800 ELSE -800],
            [i \in 1..n |-> i * 100],
            [i \in 1..n |-> IF i % window_size = 1 THEN 900 ELSE 0]}
           : n \in 0..MaxSamples}

FactorInputs == {0, 700, 1000}

CorrectionWanted_le(preservation_factor) == preservation_factor =< 1000

\* preservation_factor < 1.0f
CorrectionWanted(preservation_factor) == preservation_factor < 1000

RECURSIVE LispStep(_, _, _)
\* for (i = 0; i < num_samples; i++) if (i > 0) {
\*     diff = audio[i] - audio[i-1];
\*     audio[i] = audio[i] - diff * 0.2f * (1.0f - preservation_factor); }
LispStep(a, i, f) ==
    IF i >= Len(a) THEN a
    ELSE LET diff == At(a, i) - At(a, i - 1)
             v == At(a, i) - ((diff * 200 * (1000 - f)) \div 1000000)
         IN LispStep([a EXCEPT ![i + 1] = v], i + 1, f)

RECURSIVE SumSamples(_, _, _)
\* sum of audio[lo] .. audio[hi]
SumSamples(a, lo, hi) ==
    IF lo > hi THEN 0 ELSE At(a, lo) + SumSamples(a, lo + 1, hi)

\* for (j = -smooth_window/2; j <= smooth_window/2; j++) avg += audio[i+j];
\* avg /= smooth_window;
WindowAverage(a, i) ==
    SumSamples(a, i - (smooth_window \div 2), i + (smooth_window \div 2))
        \div smooth_window

\* audio[i] * preservation_factor + avg * (1.0f - preservation_factor)
Blend(sample, avg, f) == (sample * f + avg * (1000 - f)) \div 1000

RECURSIVE StutterLoop(_, _, _, _)
\* for (uint32_t i = smooth_window; i < num_samples - smooth_window; i++)
\* One iteration touches audio[i - smooth_window/2 .. i + smooth_window/2];
\* the loop is followed until it ends or first leaves the buffer.
StutterLoop(a, i, bound, f) ==
    IF i >= bound THEN [audio |-> a, oob |-> FALSE]
    ELSE IF i + (smooth_window \div 2) >= Len(a)
    THEN [audio |-> a, oob |-> TRUE]
    ELSE StutterLoop([a EXCEPT ![i + 1] =
                          Blend(At(a, i), WindowAverage(a, i), f)],
                     i + 1, bound, f)

RECURSIVE ClampedSmooth(_, _, _)
ClampedSmooth(a, i, f) ==
    IF i >= Len(a) THEN a
    ELSE LET lo == IF i < smooth_window \div 2 THEN 0
                   ELSE i - (smooth_window \div 2)
             hi == IF i + (smooth_window \div 2) >= Len(a) THEN Len(a) - 1
                   ELSE i + (smooth_window \div 2)
             avg == SumSamples(a, lo, hi) \div smooth_window
         IN ClampedSmooth([a EXCEPT ![i + 1] = Blend(At(a, i), avg, f)],
                          i + 1, f)

StutterSmooth_clampedEdges(a, f) ==
    [audio |-> ClampedSmooth(a, 0, f), oob |-> FALSE]

\* Lines 143-154: the smoothing loop with its unsigned 32-bit bound
StutterSmooth(a, f) ==
    StutterLoop(a, smooth_window,
                (Len(a) - smooth_window) % IndexModulus, f)

\* The buffer obivox_apply_phonetic_normalization leaves, and whether the
\* call read or wrote past the end of the buffer
Normalize(a, lisp_mitigation, stutter_detection, f) ==
    LET a1 == IF lisp_mitigation /\ CorrectionWanted(f)
              THEN LispStep(a, 1, f) ELSE a
    IN IF stutter_detection /\ CorrectionWanted(f)
       THEN StutterSmooth(a1, f)
       ELSE [audio |-> a1, oob |-> FALSE]

\* One call on a fresh buffer.  A call that leaves the buffer either dies
\* there or runs on through memory behind the buffer; its writes are then
\* at indices of at least smooth_window, beyond the end of the buffer.
obivox_apply_phonetic_normalization ==
    /\ ~crashed
    /\ dsp = DspIdle
    /\ \E a \in AudioInputs, lisp \in BOOLEAN, stutter \in BOOLEAN,
          f \in FactorInputs, args_ok \in BOOLEAN, dies \in BOOLEAN :
         LET r == Normalize(a, lisp, stutter, f) IN
         /\ dies => (args_ok /\ r.oob)
         /\ dsp' = [op |-> "obivox_apply_phonetic_normalization",
                    before |-> a,
                    lisp_mitigation |-> lisp,
                    stutter_detection |-> stutter,
                    preservation_factor |-> f,
                    audio |-> IF args_ok THEN r.audio ELSE a,
                    oob |-> args_ok /\ r.oob,
                    died |-> dies,
                    ret |-> IF args_ok THEN 0 ELSE -1]
    /\ UNCHANGED <<current_position, accessibility, current_tree_mode,
                   drift_magnitude, coherence_threshold,
                   fault_tolerance_enabled, recovery_attempts,
                   last_confidence, feedback, lastOp, ret, drift_detected,
                   should_cascade, arg_confidence, output, crashed,
                   ai_cycles, prev_position, threads, serial_attempts>>

RECURSIVE CountCrossings(_, _)
\* for (i = 1; i < num_samples; i++)
\*     if ((audio[i] > 0) != (audio[i-1] > 0)) zero_crossing_rate += 1.0f;
CountCrossings(a, i) ==
    IF i >= Len(a) THEN 0
    ELSE (IF (At(a, i) > 0) # (At(a, i - 1) > 0) THEN 1 ELSE 0)
         + CountCrossings(a, i + 1)

RECURSIVE Correlation(_, _, _)
\* for (j = 0; j < window_size; j++)
\*     correlation += audio[i+j] * audio[i-window_size+j];   (micro units)
Correlation(a, i, j) ==
    IF j >= window_size THEN 0
    ELSE At(a, i + j) * At(a, i - window_size + j) + Correlation(a, i, j + 1)

RECURSIVE RepetitionLoop(_, _, _, _, _)
\* for (uint32_t i = window_size; i < num_samples - window_size;
\*      i += window_size/2) { ... if (correlation > 0.8f) repetition_score += 1.0f; }
\* One iteration reads audio[i - window_size .. i + window_size - 1]; the
\* loop is followed until it ends or first leaves the buffer.
RepetitionLoop(a, i, bound, rep, windows) ==
    IF i >= bound
    THEN [repetition_score |-> rep, windows |-> windows, oob |-> FALSE]
    ELSE IF i + window_size - 1 >= Len(a)
    THEN [repetition_score |-> rep, windows |-> windows, oob |-> TRUE]
    ELSE RepetitionLoop(a, (i + (window_size \div 2)) % IndexModulus, bound,
                        rep + (IF Correlation(a, i, 0) > 800000
                               THEN 1 ELSE 0),
                        windows + 1)

DetectShortGuard_rejects(n) == n < window_size

\* obivox_detect_speech_variations returns -1 only for NULL pointers: no
\* buffer length is rejected
DetectShortGuard(n) == FALSE

\* The detector on buffer a and profile acc.  The zero-crossing rate of an
\* empty buffer is 0/0, a NaN that fails every comparison and makes the
\* score a NaN.  When the stutter loop leaves the buffer the samples it
\* reads are arbitrary: garbage_rep windows are then counted as repeated.
Detect(a, acc, garbage_rep) ==
    LET n == Len(a)
        nan == (n = 0)
        zero_crossing_rate ==
            IF nan THEN 0 ELSE (CountCrossings(a, 1) * 1000) \div n
        loop == RepetitionLoop(a, window_size,
                               (n - window_size) % IndexModulus, 0, 0)
        repetition_score ==
            IF loop.oob THEN garbage_rep ELSE loop.repetition_score
        windows == IF loop.oob THEN loop.windows + 1 ELSE loop.windows
        score == VariationScore(zero_crossing_rate, repetition_score,
                                acc.variation_tolerance)
        lisp == acc.lisp_mitigation \/ (~nan /\ zero_crossing_rate > 400)
        stutter == acc.stutter_detection \/ repetition_score > 3
        accent == IF ~nan /\ score > 500
                     /\ acc.phenomenological_integrity > 900
                  THEN FALSE ELSE acc.accent_normalization
    IN IF DetectShortGuard(n)
       THEN [ret |-> -1, profile |-> acc, variation_score |-> 0,
             score_nan |-> FALSE, windows |-> 0, oob |-> FALSE]
       ELSE [ret |-> 0,
             profile |-> [acc EXCEPT !.lisp_mitigation = lisp,
                                     !.stutter_detection = stutter,
                                     !.accent_normalization = accent],
             variation_score |-> IF nan THEN 0 ELSE score,
             score_nan |-> nan,
             windows |-> windows,
             oob |-> loop.oob]

\* profiles the callers pass to the detector
ProfileInputs ==
    {[lisp_mitigation |-> l, stutter_detection |-> st,
      accent_normalization |-> TRUE, variation_tolerance |-> 700,
      phenomenological_integrity |-> 950,
      experiential_authenticity |-> 950] : l \in BOOLEAN, st \in BOOLEAN}

\* One call on a fresh buffer.  A call whose stutter loop leaves the buffer
\* either dies there or returns after reading arbitrary memory.
obivox_detect_speech_variations ==
    /\ ~crashed
    /\ dsp = DspIdle
    /\ \E a \in AudioInputs, acc \in ProfileInputs, args_ok \in BOOLEAN,
          dies \in BOOLEAN, garbage_rep \in 0..MaxRepetitions :
         LET r == Detect(a, acc, garbage_rep) IN
         /\ dies => (args_ok /\ r.oob)
         /\ (garbage_rep > 0) => (args_ok /\ r.oob /\ ~dies)
         /\ dsp' = [op |-> "obivox_detect_speech_variations",
                    before |-> a,
                    profile_before |-> acc,
                    profile |-> IF args_ok /\ ~dies THEN r.profile ELSE acc,
                    variation_score |-> r.variation_score,
                    score_nan |-> r.score_nan,
                    windows |-> IF args_ok THEN r.windows ELSE 0,
                    oob |-> args_ok /\ r.oob,
                    died |-> dies,
                    ret |-> IF args_ok THEN r.ret ELSE -1]
    /\ UNCHANGED <<current_position, accessibility, current_tree_mode,
                   drift_magnitude, coherence_threshold,
                   fault_tolerance_enabled, recovery_attempts,
                   last_confidence, feedback, lastOp, ret, drift_detected,
                   should_cascade, arg_confidence, output, crashed,
                   ai_cycles, prev_position, threads, serial_attempts>>

NextDsp ==
    \/ obivox_apply_phonetic_normalization
    \/ obivox_detect_speech_variations

SpecDsp == Init /\ [][NextDsp]_vars

\* ------------------------------------------------------------------------
\* Mapper specification: obivox_map_to_nlm_space applied once to features
\* and a coordinate record of the caller
\* ------------------------------------------------------------------------

\* pitch contours and energy envelopes: constant ones (negative, zero,
\* positive), and ones that alternate, rise, and step once
ContourInputs ==
    {[i \in 1..NumBins |-> c] : c \in {-500, 0, 440, 2000}}
    \cup {[i \in 1..NumBins |-> IF i % 2 = 0 THEN 2000 ELSE 0],
          [i \in 1..NumBins |-> i * 300],
          [i \in 1..NumBins |-> IF i = 1 THEN 0 ELSE 1000]}

IsConstant(contour) ==
    \A i \in 1..Len(contour) : contour[i] = contour[1]

\* variation scores handed to the mapper, the detector's 1.07 among them
ScoreInputs == {0, 500, 1000, 1070}

\* the caller's coordinate record before the call
StaleCoordinate == [x_axis |-> -1000, y_axis |-> -1000, z_axis |-> 0,
                    confidence |-> 0]

\* One call obivox_map_to_nlm_space(&features, &coordinates).
MapFeatures ==
    /\ ~crashed
    /\ dsp = DspIdle
    /\ \E pitch \in ContourInputs, energy \in ContourInputs,
          score \in ScoreInputs, args_ok \in BOOLEAN :
         LET features == [pitch_contour |-> pitch,
                          energy_envelope |-> energy,
                          variation_score |-> score] IN
         dsp' = [op |-> "obivox_map_to_nlm_space",
                 features |-> features,
                 coordinates |-> IF args_ok
                                 THEN obivox_map_to_nlm_space(features)
                                 ELSE StaleCoordinate,
                 ret |-> IF args_ok THEN 0 ELSE -1]
    /\ UNCHANGED <<current_position, accessibility, current_tree_mode,
                   drift_magnitude, coherence_threshold,
                   fault_tolerance_enabled, recovery_attempts,
                   last_confidence, feedback, lastOp, ret, drift_detected,
                   should_cascade, arg_confidence, output, crashed,
                   ai_cycles, prev_position, threads, serial_attempts>>

NextMap == MapFeatures

SpecMap == Init /\ [][NextMap]_vars

\* ------------------------------------------------------------------------
\* Loop specification: the stutter loop of obivox_detect_speech_variations
\* followed one iteration at a time.  dsp holds num_samples, the loop index
\* i and where the call is: in the loop, returned, or dead.
\* ------------------------------------------------------------------------

\* the call has reached line 92 with i = window_size
InitLoop ==
    /\ obivox_nlm_init
    /\ feedback = NoFeedback
    /\ lastOp = "obivox_nlm_init"
    /\ ret = 0
    /\ drift_detected = 0
    /\ should_cascade = FALSE
    /\ arg_confidence = 0
    /\ output = "NULL"
    /\ crashed = FALSE
    /\ ai_cycles = 0
    /\ prev_position = NoPosition
    /\ threads = IdleThreads
    /\ serial_attempts = 0
    /\ \E n \in 0..MaxSamples :
         dsp = [op |-> "obivox_detect_speech_variations",
                num_samples |-> n, i |-> window_size, pc |-> "loop"]

\* i < num_samples - window_size, in unsigned arithmetic
LoopGuard(i, num_samples) == i < (num_samples - window_size) % IndexModulus

\* the iteration at index i reads audio[i - window_size .. i + window_size - 1]
LeavesBuffer(i, num_samples) == i + window_size - 1 >= num_samples

LoopFrame ==
    UNCHANGED <<current_position, accessibility, current_tree_mode,
                drift_magnitude, coherence_threshold,
                fault_tolerance_enabled, recovery_attempts, last_confidence,
                feedback, lastOp, ret, drift_detected, should_cascade,
                arg_confidence, output, crashed, ai_cycles, prev_position,
                threads, serial_attempts>>

\* Lines 92-100: one iteration that survives its reads; i += window_size/2
LoopIterate ==
    /\ dsp.pc = "loop"
    /\ LoopGuard(dsp.i, dsp.num_samples)
    /\ dsp' = [dsp EXCEPT !.i = (@ + (window_size \div 2)) % IndexModulus]
    /\ LoopFrame

\* Line 95: a read outside the buffer ends the process
LoopDies ==
    /\ dsp.pc = "loop"
    /\ LoopGuard(dsp.i, dsp.num_samples)
    /\ LeavesBuffer(dsp.i, dsp.num_samples)
    /\ dsp' = [dsp EXCEPT !.pc = "died"]
    /\ LoopFrame

\* Lines 92, 102-117: the guard fails, the rest of the function is
\* straight-line code and the call returns
LoopExit ==
    /\ dsp.pc = "loop"
    /\ ~LoopGuard(dsp.i, dsp.num_samples)
    /\ dsp' = [dsp EXCEPT !.pc = "returned"]
    /\ LoopFrame

NextLoop ==
    \/ LoopIterate
    \/ LoopDies
    \/ LoopExit

\* the thread that runs the call keeps being scheduled
SpecLoop == InitLoop /\ [][NextLoop]_vars /\ WF_vars(NextLoop)

\* ------------------------------------------------------------------------
\* Concurrent specification: NumThreads workers run conversion cycles on the
\* same system.  nlm_core.c takes no lock and uses no atomic type, so the
\* workers' accesses to the system's fields interleave at the granularity
\* of single loads and stores.  Each worker t is at threads[t].pc; sc is
\* its local should_cascade and tmp the value it holds in a register (the
\* drift argument it passes, later the counter it loaded).
\* ------------------------------------------------------------------------

\* drift fields of systems that Spec reaches through obivox_handle_drift
\* and earlier serial cycles: green, AI stress and human stress, with every
\* count of attempts up to the cap
ConcDriftStates ==
    {[drift_magnitude |-> d,
      current_tree_mode |->
          DriftUpdate(TREE_MODE_HYBRID, 954, d).current_tree_mode,
      coherence_threshold |->
          DriftUpdate(TREE_MODE_HYBRID, 954, d).coherence_threshold,
      should_cascade |-> DriftUpdate(TREE_MODE_HYBRID, 954, d).should_cascade,
      recovery_attempts |-> n] : d \in {0, 301, 626}, n \in 0..3}

InitConc ==
    /\ current_position = [x_axis |-> 0, y_axis |-> 0, z_axis |-> 500,
                           confidence |-> 954]
    /\ accessibility = [lisp_mitigation |-> TRUE,
                        stutter_detection |-> TRUE,
                        accent_normalization |-> FALSE,
                        variation_tolerance |-> 700,
                        phenomenological_integrity |-> 950,
                        experiential_authenticity |-> 950]
    /\ \E ds \in ConcDriftStates :
         /\ drift_magnitude = ds.drift_magnitude
         /\ drift_detected = ds.drift_magnitude
         /\ current_tree_mode = ds.current_tree_mode
         /\ coherence_threshold = ds.coherence_threshold
         /\ recovery_attempts = ds.recovery_attempts
         /\ serial_attempts = ds.recovery_attempts
         /\ should_cascade = ds.should_cascade
    /\ fault_tolerance_enabled = TRUE
    /\ last_confidence = 0
    /\ feedback = NoFeedback
    /\ lastOp = "obivox_handle_drift"
    /\ ret = 0
    /\ arg_confidence = 0
    /\ output = "NULL"
    /\ crashed = FALSE
    /\ ai_cycles = 0
    /\ prev_position = NoPosition
    /\ threads = IdleThreads
    /\ dsp = DspIdle

\* what a worker's step leaves alone besides the fields it names
ConcFrame ==
    UNCHANGED <<feedback, arg_confidence, ai_cycles, prev_position, dsp>>

\* Line 216: worker t enters obivox_bidirectional_convert with non-NULL
\* arguments.
ConcEnter(t) ==
    /\ ~crashed
    /\ threads[t].pc = "idle"
    /\ threads' = [threads EXCEPT ![t] = [pc |-> "gate", sc |-> FALSE,
                                          tmp |-> 0]]
    /\ ConcFrame
    /\ UNCHANGED <<current_position, accessibility, current_tree_mode,
                   drift_magnitude, coherence_threshold,
                   fault_tolerance_enabled, recovery_attempts,
                   last_confidence, lastOp, ret, drift_detected,
                   should_cascade, output, crashed, serial_attempts>>

\* Line 219: if (system->drift_magnitude > 0.3f); line 222 loads the field
\* again as the argument of obivox_handle_drift.
ConcGate(t) ==
    /\ ~crashed
    /\ threads[t].pc = "gate"
    /\ threads' = [threads EXCEPT ![t] =
                      IF DriftGate(drift_magnitude)
                      THEN [pc |-> "drift", sc |-> FALSE,
                            tmp |-> drift_magnitude]
                      ELSE [pc |-> "body", sc |-> FALSE, tmp |-> 0]]
    /\ ConcFrame
    /\ UNCHANGED <<current_position, accessibility, current_tree_mode,
                   drift_magnitude, coherence_threshold,
                   fault_tolerance_enabled, recovery_attempts,
                   last_confidence, lastOp, ret, drift_detected,
                   should_cascade, output, crashed, serial_attempts>>

\* Lines 221-222: bool should_cascade = false; obivox_handle_drift(system,
\* drift, &should_cascade).  Every worker passes the stored drift, which
\* the callee stores back, so the stores of concurrent callees write equal
\* values and the callee is taken as one step.
ConcHandleDrift(t) ==
    /\ ~crashed
    /\ threads[t].pc = "drift"
    /\ LET r == DriftUpdate(current_tree_mode, coherence_threshold,
                            threads[t].tmp) IN
         /\ drift_detected' = threads[t].tmp
         /\ current_tree_mode' = r.current_tree_mode
         /\ coherence_threshold' = r.coherence_threshold
         /\ drift_magnitude' = r.drift_magnitude
         /\ should_cascade' = r.should_cascade
         /\ threads' = [threads EXCEPT ![t] =
                           [pc |-> "guard", sc |-> r.should_cascade,
                            tmp |-> 0]]
    /\ ConcFrame
    /\ UNCHANGED <<current_position, accessibility,
                   fault_tolerance_enabled, recovery_attempts,
                   last_confidence, lastOp, ret, output, crashed,
                   serial_attempts>>

\* Line 224: if (should_cascade && system->recovery_attempts < 3)
ConcGuard(t) ==
    /\ ~crashed
    /\ threads[t].pc = "guard"
    /\ threads' = [threads EXCEPT ![t].pc =
                      IF CascadeGuard(threads[t].sc, recovery_attempts)
                      THEN "load" ELSE "body"]
    /\ ConcFrame
    /\ UNCHANGED <<current_position, accessibility, current_tree_mode,
                   drift_magnitude, coherence_threshold,
                   fault_tolerance_enabled, recovery_attempts,
                   last_confidence, lastOp, ret, drift_detected,
                   should_cascade, output, crashed, serial_attempts>>

\* Line 226, first half: the load of system->recovery_attempts++
ConcLoad(t) ==
    /\ ~crashed
    /\ threads[t].pc = "load"
    /\ threads' = [threads EXCEPT ![t].pc = "store",
                                  ![t].tmp = recovery_attempts]
    /\ ConcFrame
    /\ UNCHANGED <<current_position, accessibility, current_tree_mode,
                   drift_magnitude, coherence_threshold,
                   fault_tolerance_enabled, recovery_attempts,
                   last_confidence, lastOp, ret, drift_detected,
                   should_cascade, output, crashed, serial_attempts>>

\* Line 226, second half, and line 227: the store of the incremented
\* counter; system->fault_tolerance_enabled = true.
ConcStore(t) ==
    /\ ~crashed
    /\ threads[t].pc = "store"
    /\ recovery_attempts' = NextAttempts(threads[t].tmp)
    /\ fault_tolerance_enabled' = TRUE
    /\ threads' = [threads EXCEPT ![t].pc = "body", ![t].tmp = 0]
    /\ ConcFrame
    /\ UNCHANGED <<current_position, accessibility, current_tree_mode,
                   drift_magnitude, coherence_threshold, last_confidence,
                   lastOp, ret, drift_detected, should_cascade, output,
                   crashed, serial_attempts>>

\* Lines 231-309: the conversion proper, and the return.  The same cycle
\* run after the cycles that returned before it would have tested and
\* incremented serial_attempts.
ConcFinish(t) ==
    /\ ~crashed
    /\ threads[t].pc = "body"
    /\ lastOp' = "obivox_bidirectional_convert"
    /\ \E input_type \in InputType, dies \in BOOLEAN,
          stutter_found \in BOOLEAN :
         ConvertBody(input_type, dies, stutter_found)
    /\ serial_attempts' =
          IF CascadeGuard(threads[t].sc, serial_attempts)
          THEN NextAttempts(serial_attempts) ELSE serial_attempts
    /\ threads' = [threads EXCEPT ![t] = [pc |-> "idle", sc |-> FALSE,
                                          tmp |-> 0]]
    /\ ConcFrame
    /\ UNCHANGED <<current_tree_mode, drift_magnitude, coherence_threshold,
                   fault_tolerance_enabled, recovery_attempts,
                   drift_detected, should_cascade>>

NextConc ==
    \E t \in Threads :
        \/ ConcEnter(t)
        \/ ConcGate(t)
        \/ ConcHandleDrift(t)
        \/ ConcGuard(t)
        \/ ConcLoad(t)
        \/ ConcStore(t)
        \/ ConcFinish(t)

SpecConc == InitConc /\ [][NextConc]_vars

\* ------------------------------------------------------------------------
\* Properties
\* ------------------------------------------------------------------------

\* the call just made was a direct obivox_handle_drift that passed its
\* NULL checks
DirectDriftUpdate ==
    lastOp = "obivox_handle_drift" /\ ret = 0

\* the call just made was an obivox_bidirectional_convert that passed its
\* NULL checks (it returned 0, or died in the audio branch)
ConversionCycle ==
    lastOp = "obivox_bidirectional_convert" /\ (crashed \/ ret = 0)

\* C1 as stated: obivox_handle_drift classifies drift 0.374 as GREEN (Hybrid,
\* threshold 0.954) and drift 0.375 as AI_STRESS (Relaxed, threshold 0.85).
C1_LowerBoundaryAsStated ==
    DirectDriftUpdate =>
        /\ drift_detected = 374 =>
              /\ current_tree_mode = TREE_MODE_HYBRID
              /\ coherence_threshold = 954
        /\ drift_detected = 375 =>
              /\ current_tree_mode = TREE_MODE_RB
              /\ coherence_threshold = 850

\* C1 amended: obivox_handle_drift classifies drift 0.374 (failure magnitude
\* -3.024) as AI_STRESS (Relaxed, threshold 0.85) and drift 0.375 (failure
\* magnitude exactly -3) as GREEN (Hybrid, threshold 0.954).
C1_LowerBoundary ==
    DirectDriftUpdate =>
        /\ drift_detected = 374 =>
              /\ current_tree_mode = TREE_MODE_RB
              /\ coherence_threshold = 850
        /\ drift_detected = 375 =>
              /\ current_tree_mode = TREE_MODE_HYBRID
              /\ coherence_threshold = 954

C1_Witness ==
    /\ DirectDriftUpdate
    /\ drift_detected = 375
    /\ current_tree_mode = TREE_MODE_HYBRID

\* C2: obivox_handle_drift classifies drift 0.625 (failure magnitude exactly
\* 3) as GREEN (Hybrid, threshold reset to 0.954) and drift 0.626 as
\* HUMAN_STRESS (Strict, cascade false): the test "> 3" is strict.
C2_UpperBoundary ==
    DirectDriftUpdate =>
        /\ drift_detected = 625 =>
              /\ current_tree_mode = TREE_MODE_HYBRID
              /\ coherence_threshold = 954
        /\ drift_detected = 626 =>
              /\ current_tree_mode = TREE_MODE_AVL
              /\ should_cascade = FALSE

C2_Witness ==
    /\ DirectDriftUpdate
    /\ drift_detected = 625
    /\ current_tree_mode = TREE_MODE_HYBRID
    /\ coherence_threshold = 954

\* C3: for every drift input, obivox_handle_drift sets Relaxed mode and
\* threshold 0.85 when drift*24-12 < -3, Strict mode with cascade false when
\* drift*24-12 > 3, and Hybrid mode with threshold 0.954 otherwise; in all
\* three cases the stored drift_magnitude becomes the input.
C3_ZoneMapping ==
    DirectDriftUpdate =>
        /\ drift_magnitude = drift_detected
        /\ drift_detected * 24 - 12000 < -3000 =>
              /\ current_tree_mode = TREE_MODE_RB
              /\ coherence_threshold = 850
        /\ drift_detected * 24 - 12000 > 3000 =>
              /\ current_tree_mode = TREE_MODE_AVL
              /\ should_cascade = FALSE
        /\ (/\ drift_detected * 24 - 12000 >= -3000
            /\ drift_detected * 24 - 12000 =< 3000) =>
              /\ current_tree_mode = TREE_MODE_HYBRID
              /\ coherence_threshold = 954

C3_Witness ==
    /\ DirectDriftUpdate
    /\ drift_detected = 1000
    /\ drift_magnitude = 1000
    /\ current_tree_mode = TREE_MODE_AVL
    /\ coherence_threshold = 850

\* C4: a drift update that lands in the AI_STRESS zone (drift*24-12 < -3)
\* sets cascade to true only if recovery_attempts < 3; with
\* recovery_attempts already 3 the update is forced to HUMAN_STRESS (Strict
\* mode, cascade false).
C4_CascadeCap ==
    [][ ((\/ lastOp' = "obivox_handle_drift" /\ ret' = 0
          \/ /\ lastOp' = "obivox_bidirectional_convert"
             /\ (crashed' \/ ret' = 0)
             /\ drift_magnitude > 300)
         /\ drift_detected' * 24 - 12000 < -3000)
        => IF recovery_attempts < 3
           THEN should_cascade' = TRUE
           ELSE /\ should_cascade' = FALSE
                /\ current_tree_mode' = TREE_MODE_AVL ]_vars

\* C5: starting from recovery_attempts = 0, consecutive AI_STRESS conversion
\* cycles without feedback take recovery_attempts through 1, 2, 3, and the
\* fourth cycle forces HUMAN_STRESS (Strict mode, no cascade).
C5_FourCycles ==
    /\ ai_cycles \in 1..3 => recovery_attempts = ai_cycles
    /\ ai_cycles = 4 =>
          /\ recovery_attempts = 3
          /\ current_tree_mode = TREE_MODE_AVL
          /\ should_cascade = FALSE

\* C6: in every reachable state recovery_attempts is in 0..3.
C6_AttemptsBounded ==
    recovery_attempts \in 0..3

C6_Witness ==
    /\ ConversionCycle
    /\ ai_cycles >= 4
    /\ recovery_attempts = 3
    /\ should_cascade = TRUE

\* C7: recovery_attempts never decreases in a step other than
\* obivox_incorporate_feedback, which sets it to 0; once it is 3 it stays 3
\* in every step that is not a feedback incorporation.
C7_MonotonicEscalation ==
    [][ /\ recovery_attempts' < recovery_attempts =>
              /\ lastOp' = "obivox_incorporate_feedback"
              /\ recovery_attempts' = 0
        /\ (recovery_attempts = 3
            /\ lastOp' # "obivox_incorporate_feedback") =>
              recovery_attempts' = 3 ]_vars

C7_Witness ==
    /\ ConversionCycle
    /\ recovery_attempts = 3
    /\ drift_magnitude = 375
    /\ current_tree_mode = TREE_MODE_HYBRID

\* C8 as stated: every conversion cycle whose drift is in the AI_STRESS zone
\* (drift*24-12 < -3, including drift 0) while recovery_attempts < 3
\* increases recovery_attempts by exactly one.
C8_IncrementAsStated ==
    [][ (/\ lastOp' = "obivox_bidirectional_convert"
         /\ (crashed' \/ ret' = 0)
         /\ drift_magnitude * 24 - 12000 < -3000
         /\ recovery_attempts < 3)
        => recovery_attempts' = recovery_attempts + 1 ]_vars

\* C8 amended: every conversion cycle whose stored drift is above the drift
\* gate (> 0.3) and in the AI_STRESS zone (drift*24-12 < -3) while
\* recovery_attempts < 3 increases recovery_attempts by exactly one; a cycle
\* whose stored drift is at most 0.3 (including drift 0) leaves
\* recovery_attempts unchanged.
C8_GatedIncrement ==
    [][ (lastOp' = "obivox_bidirectional_convert"
         /\ (crashed' \/ ret' = 0)) =>
           /\ (/\ drift_magnitude > 300
               /\ drift_magnitude * 24 - 12000 < -3000
               /\ recovery_attempts < 3)
              => recovery_attempts' = recovery_attempts + 1
           /\ drift_magnitude =< 300
              => recovery_attempts' = recovery_attempts ]_vars

C8_Witness ==
    /\ ConversionCycle
    /\ drift_magnitude = 301
    /\ ai_cycles = 2
    /\ recovery_attempts = 2

\* C9: when the drift of a conversion cycle evaluates to HUMAN_STRESS the
\* pipeline suspends: obivox_bidirectional_convert delivers no conversion
\* output for that cycle.
C9_SuspendOnHumanStress ==
    (/\ lastOp = "obivox_bidirectional_convert"
     /\ ret = 0
     /\ drift_magnitude > 300
     /\ drift_magnitude * 24 - 12000 > 3000)
    => output = "NULL"

\* C10: obivox_request_human_validation sets requires_confirmation exactly
\* when confidence < 0.85 (0.84 true, 0.85 false, 0.86 false) and returns 1
\* exactly when requires_confirmation is true, 0 otherwise.
C10_ConfidenceGate ==
    (lastOp = "obivox_request_human_validation" /\ ret # -1) =>
        /\ feedback.requires_confirmation = (arg_confidence < 850)
        /\ arg_confidence = 840 => feedback.requires_confirmation = TRUE
        /\ arg_confidence = 850 => feedback.requires_confirmation = FALSE
        /\ arg_confidence = 860 => feedback.requires_confirmation = FALSE
        /\ ret = (IF feedback.requires_confirmation THEN 1 ELSE 0)

C10_Witness ==
    /\ lastOp = "obivox_request_human_validation"
    /\ arg_confidence = 850
    /\ ret = 0
    /\ feedback.requires_confirmation = FALSE

\* the call just made was an obivox_incorporate_feedback that passed its
\* NULL checks
FeedbackIncorporated ==
    lastOp = "obivox_incorporate_feedback" /\ ret = 0

\* C11: obivox_incorporate_feedback with a supplied correction sets y to
\* min(y + 0.1, 1.0) and z to min(z + 0.05, 1.0), leaves x and confidence
\* unchanged and resets drift_magnitude and recovery_attempts to 0; from
\* y = 0.9, z = 0.99 the result is y = 1.0 and z = 1.0.
C11_FeedbackNudge ==
    (FeedbackIncorporated /\ feedback.suggested_correction = "text") =>
        /\ current_position.y_axis =
              (IF prev_position.y_axis + 100 > 1000 THEN 1000
               ELSE prev_position.y_axis + 100)
        /\ current_position.z_axis =
              (IF prev_position.z_axis + 50 > 1000 THEN 1000
               ELSE prev_position.z_axis + 50)
        /\ current_position.x_axis = prev_position.x_axis
        /\ current_position.confidence = prev_position.confidence
        /\ drift_magnitude = 0
        /\ recovery_attempts = 0
        /\ (prev_position.y_axis = 900 /\ prev_position.z_axis = 990) =>
              /\ current_position.y_axis = 1000
              /\ current_position.z_axis = 1000

C11_Witness ==
    /\ FeedbackIncorporated
    /\ feedback.suggested_correction = "text"
    /\ prev_position.y_axis = 900
    /\ prev_position.z_axis = 990
    /\ current_position.y_axis = 1000
    /\ current_position.z_axis = 1000
    /\ drift_detected = 301
    /\ drift_magnitude = 0
    /\ recovery_attempts = 0

C13_UnansweredRoundTrip ==
    (FeedbackIncorporated /\ feedback.suggested_correction = "empty") =>
        /\ current_position.y_axis = prev_position.y_axis
        /\ current_position.z_axis = prev_position.z_axis

\* C14: in every reachable state the system's coordinate has x and y in
\* [-1,1] and z and confidence in [0,1], after any mappings with variation
\* scores the detector can produce and any feedback incorporations.
C14_CoordinateBounds ==
    /\ current_position.x_axis >= -1000 /\ current_position.x_axis =< 1000
    /\ current_position.y_axis >= -1000 /\ current_position.y_axis =< 1000
    /\ current_position.z_axis >= 0 /\ current_position.z_axis =< 1000
    /\ current_position.confidence >= 0
    /\ current_position.confidence =< 1000

\* C15: the confidence produced by the mapping of a conversion cycle is the
\* current coherence threshold times (1 - 0.1 * variation_score), so 0.85
\* times that factor once a drift update has lowered the threshold to 0.85.
C15_ConfidenceUsesThreshold ==
    (/\ lastOp = "obivox_bidirectional_convert"
     /\ ret = 0
     /\ output = "transcription")
    => current_position.confidence =
          (coherence_threshold
             * (1000 - (current_position.z_axis \div 10))) \div 1000

\* C20: right after obivox_nlm_init the system holds coherence threshold
\* 0.954, variation tolerance 0.7, recovery_attempts 0, drift_magnitude 0,
\* tree mode Hybrid and the coordinate x = 0, y = 0, z = 0.5,
\* confidence = 0.954.
C20_InitDefaults ==
    lastOp = "obivox_nlm_init" =>
        /\ coherence_threshold = 954
        /\ accessibility.variation_tolerance = 700
        /\ recovery_attempts = 0
        /\ drift_magnitude = 0
        /\ current_tree_mode = TREE_MODE_HYBRID
        /\ current_position = [x_axis |-> 0, y_axis |-> 0, z_axis |-> 500,
                               confidence |-> 954]

C20_Witness ==
    /\ lastOp = "obivox_nlm_init"
    /\ ret = 0
    /\ coherence_threshold = 954
    /\ current_position.z_axis = 500

\* the call just made was an obivox_apply_phonetic_normalization with
\* non-NULL arguments
Normalized ==
    dsp.op = "obivox_apply_phonetic_normalization" /\ dsp.ret = 0

\* C16: obivox_apply_phonetic_normalization with preservation_factor = 1.0
\* returns with every sample of the buffer unchanged, for every combination
\* of the lisp and stutter flags and every buffer length.
C16_FactorOneIsNoOp ==
    (Normalized /\ dsp.preservation_factor = 1000) =>
        /\ ~dsp.died
        /\ dsp.audio = dsp.before

C16_Witness ==
    /\ Normalized
    /\ dsp.preservation_factor = 1000
    /\ dsp.lisp_mitigation
    /\ dsp.stutter_detection
    /\ Len(dsp.before) > 2 * smooth_window
    /\ dsp.before[1] # dsp.before[2]
    /\ dsp.audio = dsp.before

\* sample index i of a buffer of n samples lies within the half-window
\* margin of either end
InMargin(i, n) ==
    i < smooth_window \div 2 \/ i >= n - (smooth_window \div 2)

\* C17 as stated: for any flags and any preservation factor < 1, every
\* sample within the half-window margin of either end of the buffer has the
\* same value after obivox_apply_phonetic_normalization as before.
C17_BoundaryUntouchedAsStated ==
    (Normalized /\ dsp.preservation_factor < 1000) =>
        \A i \in 0..(Len(dsp.before) - 1) :
            InMargin(i, Len(dsp.before)) =>
                dsp.audio[i + 1] = dsp.before[i + 1]

\* C17 amended: with the lisp flag clear, for any stutter flag and any
\* preservation factor < 1, every sample within the half-window margin of
\* either end of the buffer has the same value after the call as before
\* (the lisp correction itself rewrites every sample but the first,
\* margins included).
C17_BoundaryUntouchedBySmoothing ==
    (Normalized /\ dsp.preservation_factor < 1000
     /\ ~dsp.lisp_mitigation) =>
        \A i \in 0..(Len(dsp.before) - 1) :
            InMargin(i, Len(dsp.before)) =>
                dsp.audio[i + 1] = dsp.before[i + 1]

C17_Witness ==
    /\ Normalized
    /\ ~dsp.died
    /\ dsp.preservation_factor = 0
    /\ ~dsp.lisp_mitigation
    /\ dsp.stutter_detection
    /\ dsp.audio # dsp.before
    /\ dsp.audio[1] = dsp.before[1]
    /\ dsp.audio[Len(dsp.before)] = dsp.before[Len(dsp.before)]

\* C18: for a buffer shorter than one window (length 0 included)
\* obivox_detect_speech_variations returns a failure, evaluates no stutter
\* window and does not set the stutter flag.
C18_ShortBufferRejected ==
    (/\ dsp.op = "obivox_detect_speech_variations"
     /\ (dsp.ret = 0 \/ dsp.died)
     /\ Len(dsp.before) < window_size)
    => /\ ~dsp.died
       /\ dsp.ret = -1
       /\ dsp.windows = 0
       /\ dsp.profile.stutter_detection
             = dsp.profile_before.stutter_detection

\* no worker is inside obivox_bidirectional_convert
AllIdle == \A t \in Threads : threads[t].pc = "idle"

\* C19: when conversion cycles run concurrently on one system,
\* recovery_attempts never exceeds 3 and no increment is lost: once every
\* cycle has returned, recovery_attempts is what the same cycles leave when
\* run one after another.
C19_SerializableAttempts ==
    /\ recovery_attempts =< 3
    /\ AllIdle => recovery_attempts = serial_attempts

\* the call just made was an obivox_map_to_nlm_space with non-NULL
\* arguments
Mapped == dsp.op = "obivox_map_to_nlm_space" /\ dsp.ret = 0

\* C22: obivox_map_to_nlm_space on a constant pitch contour yields
\* x_axis = 1.0 exactly, whatever the energy envelope and the variation
\* score are.
C22_ConstantPitchIsFactual ==
    (Mapped /\ IsConstant(dsp.features.pitch_contour)) =>
        dsp.coordinates.x_axis = 1000

C22_Witness ==
    /\ Mapped
    /\ IsConstant(dsp.features.pitch_contour)
    /\ dsp.features.pitch_contour[1] = 440
    /\ ~IsConstant(dsp.features.energy_envelope)
    /\ dsp.features.variation_score = 1070
    /\ dsp.coordinates.x_axis = 1000
    /\ dsp.coordinates.y_axis # 0

\* C23: obivox_bidirectional_convert evaluates the zone only when the
\* stored drift_magnitude is strictly greater than 0.3: a cycle with stored
\* drift at most 0.3 leaves tree mode, coherence threshold and
\* recovery_attempts unchanged, a cycle with stored drift above 0.3 sets
\* the tree mode of the drift's zone, and every cycle leaves the stored
\* drift_magnitude unchanged.
C23_DriftGateFrame ==
    [][ lastOp' = "obivox_bidirectional_convert" =>
           /\ drift_magnitude' = drift_magnitude
           /\ drift_magnitude =< 300 =>
                 /\ current_tree_mode' = current_tree_mode
                 /\ coherence_threshold' = coherence_threshold
                 /\ recovery_attempts' = recovery_attempts
           /\ (drift_magnitude > 300 /\ (crashed' \/ ret' = 0)) =>
                 current_tree_mode' =
                    (IF drift_magnitude * 24 - 12000 < -3000
                     THEN TREE_MODE_RB
                     ELSE IF drift_magnitude * 24 - 12000 > 3000
                     THEN TREE_MODE_AVL
                     ELSE TREE_MODE_HYBRID) ]_vars

C23_Witness ==
    /\ ConversionCycle
    /\ drift_magnitude = 300
    /\ current_tree_mode = TREE_MODE_RB
    /\ coherence_threshold = 850
    /\ recovery_attempts = 2
    /\ output = "audio_output"

\* C24: in every state reached from obivox_nlm_init by drift updates,
\* conversion cycles and feedback incorporations the coherence threshold is
\* 0.954 or 0.85, tree mode Hybrid implies threshold 0.954 and tree mode
\* Relaxed implies threshold 0.85; only Strict coexists with either value.
C24_ModeThresholdCoupling ==
    /\ coherence_threshold \in {954, 850}
    /\ current_tree_mode = TREE_MODE_HYBRID => coherence_threshold = 954
    /\ current_tree_mode = TREE_MODE_RB => coherence_threshold = 850

C24_Witness ==
    /\ DirectDriftUpdate
    /\ drift_detected = 626
    /\ current_tree_mode = TREE_MODE_AVL
    /\ coherence_threshold = 850
    /\ recovery_attempts = 3

\* C25 as stated: obivox_incorporate_feedback leaves tree mode and
\* coherence threshold unchanged while it resets drift_magnitude and
\* recovery_attempts to 0; threshold 0.85 and tree mode Relaxed then persist
\* until a later drift update lands in GREEN; a direct obivox_handle_drift
\* never changes recovery_attempts or the current coordinate.
C25_FeedbackFrameAsStated ==
    [][ /\ lastOp' = "obivox_incorporate_feedback" =>
              /\ current_tree_mode' = current_tree_mode
              /\ coherence_threshold' = coherence_threshold
              /\ ret' = 0 => (drift_magnitude' = 0 /\ recovery_attempts' = 0)
        /\ lastOp' = "obivox_handle_drift" =>
              /\ recovery_attempts' = recovery_attempts
              /\ current_position' = current_position
        /\ (/\ current_tree_mode = TREE_MODE_RB
            /\ coherence_threshold = 850
            /\ ~(/\ lastOp' = "obivox_handle_drift"
                 /\ drift_detected' * 24 - 12000 >= -3000
                 /\ drift_detected' * 24 - 12000 =< 3000)
            /\ ~(/\ lastOp' = "obivox_bidirectional_convert"
                 /\ drift_magnitude > 300
                 /\ drift_magnitude * 24 - 12000 >= -3000
                 /\ drift_magnitude * 24 - 12000 =< 3000)) =>
              /\ current_tree_mode' = TREE_MODE_RB
              /\ coherence_threshold' = 850 ]_vars

\* C25 amended: as stated, except that only the threshold 0.85 persists
\* until a later drift update lands in GREEN; tree mode Relaxed persists
\* until a later drift update lands in GREEN or in HUMAN_STRESS (which sets
\* Strict and leaves the threshold).
C25_FeedbackFrame ==
    [][ /\ lastOp' = "obivox_incorporate_feedback" =>
              /\ current_tree_mode' = current_tree_mode
              /\ coherence_threshold' = coherence_threshold
              /\ ret' = 0 => (drift_magnitude' = 0 /\ recovery_attempts' = 0)
        /\ lastOp' = "obivox_handle_drift" =>
              /\ recovery_attempts' = recovery_attempts
              /\ current_position' = current_position
        /\ (/\ coherence_threshold = 850
            /\ ~(/\ lastOp' = "obivox_handle_drift"
                 /\ drift_detected' * 24 - 12000 >= -3000
                 /\ drift_detected' * 24 - 12000 =< 3000)
            /\ ~(/\ lastOp' = "obivox_bidirectional_convert"
                 /\ drift_magnitude > 300
                 /\ drift_magnitude * 24 - 12000 >= -3000
                 /\ drift_magnitude * 24 - 12000 =< 3000)) =>
              coherence_threshold' = 850
        /\ (/\ current_tree_mode = TREE_MODE_RB
            /\ ~(/\ lastOp' = "obivox_handle_drift"
                 /\ drift_detected' * 24 - 12000 >= -3000)
            /\ ~(/\ lastOp' = "obivox_bidirectional_convert"
                 /\ drift_magnitude > 300
                 /\ drift_magnitude * 24 - 12000 >= -3000)) =>
              current_tree_mode' = TREE_MODE_RB ]_vars

C25_Witness ==
    /\ FeedbackIncorporated
    /\ drift_detected = 301
    /\ current_tree_mode = TREE_MODE_RB
    /\ coherence_threshold = 850
    /\ drift_magnitude = 0
    /\ recovery_attempts = 0

\* C26: for every num_samples, any flags and any preservation factor,
\* every sample index read or written by
\* obivox_apply_phonetic_normalization lies in [0, num_samples).
C26_IndexSafety ==
    (dsp.op = "obivox_apply_phonetic_normalization" /\ dsp.ret = 0) =>
        ~dsp.oob

\* C27: obivox_detect_speech_variations terminates for every num_samples:
\* the stutter loop always exits, also for buffer lengths below one window
\* where the unsigned bound wraps around.
C27_StutterLoopTerminates ==
    <>(dsp.pc # "loop")

====
